---- MODULE Spec2Model ----
(***************************************************************************)
(* Model of web/serve.py, the MADOLA development web server.               *)
(*                                                                         *)
(* Two instances of the script run on one host.  Each walks through the    *)
(* module's top-level statements (pc), the operating system owns the       *)
(* listening port and the disk, and a user may deliver SIGINT              *)
(* (KeyboardInterrupt) to an instance at any statement.  The standard      *)
(* library calls the script makes (os.path.abspath, socketserver.TCPServer,*)
(* http.server.SimpleHTTPRequestHandler) are modelled by what CPython      *)
(* does in them.                                                           *)
(***************************************************************************)
EXTENDS Integers, Sequences, FiniteSets, TLC

VARIABLES
    pc,          \* pc[p]: the statement instance p executes next
    cwd,         \* cwd[p]: the process's working directory (a path)
    web_dir,     \* web_dir[p]: <<>> while unset, else <<path>>        (line 13)
    port,        \* port[p]: <<>> while unset, else <<PORT>>           (line 16)
    handler,     \* handler[p]: the request handler class named        (line 18)
    stdout,      \* stdout[p]: the lines printed so far
    exitStatus,  \* exitStatus[p]: <<>> while running, else <<status>>
    sigAt,       \* sigAt[p]: the statements at which SIGINT was delivered
    steps,       \* steps[p]: the startup steps executed, in order
    listener,    \* the instances whose socket is bound to (all interfaces, PORT)
    conn,        \* the connection being served: <<>> or <<[by, req, resp]>>
    disk         \* the file system: path -> node

vars == <<pc, cwd, web_dir, port, handler, stdout, exitStatus, sigAt, steps,
          listener, conn, disk>>

\* The two instances of the program.
Procs == {"i1", "i2"}

----------------------------------------------------------------------------
(* Bounds *)

\* SIGINTs a user delivers to one instance.
MaxInterrupts == 2

\* Components in a request path.
MaxPathLen == 2

----------------------------------------------------------------------------
(* Paths: a path is the sequence of its components; <<>> is "/". *)

RECURSIVE NormFrom(_, _)
NormFrom(stack, rest) ==
    IF rest = <<>> THEN stack
    ELSE LET c == Head(rest) IN
         IF c = "." THEN NormFrom(stack, Tail(rest))
         ELSE IF c = ".."
              THEN NormFrom(IF stack = <<>> THEN <<>>
                            ELSE SubSeq(stack, 1, Len(stack) - 1), Tail(rest))
              ELSE NormFrom(Append(stack, c), Tail(rest))

\* posixpath.normpath of an absolute path: "." dropped, ".." pops, "/.." is "/".
normpath(p) == NormFrom(<<>>, p)

\* os.path.abspath(__file__): a relative name is joined to the working directory.
abspath(dir, ref) == normpath(IF ref.abs THEN ref.path ELSE dir \o ref.path)

\* os.path.dirname.
dirname(p) == IF p = <<>> THEN <<>> ELSE SubSeq(p, 1, Len(p) - 1)

\* Where serve.py lives.
ScriptPath == <<"srv", "web", "serve.py">>
ScriptDir == <<"srv", "web">>

\* The directories a user may launch the script from.
LaunchDirs == {<<"srv", "web">>, <<"srv">>, <<"home">>, <<"srv", "web", "sub">>}

\* The ways __file__ may name the script.
ScriptNames ==
    {[abs |-> TRUE,  path |-> <<"srv", "web", "serve.py">>],
     [abs |-> FALSE, path |-> <<"serve.py">>],
     [abs |-> FALSE, path |-> <<".", "serve.py">>],
     [abs |-> FALSE, path |-> <<"web", "serve.py">>],
     [abs |-> FALSE, path |-> <<"..", "serve.py">>]}

\* The values of __file__ that name the script when launched from dir.
ScriptRefs(dir) == {r \in ScriptNames : abspath(dir, r) = ScriptPath}

----------------------------------------------------------------------------
(* The disk *)

Dir(listable) == [kind |-> "dir", data |-> "", perm |-> listable]
File(bytes, readable) == [kind |-> "file", data |-> bytes, perm |-> readable]

\* The serving root always holds serve.py and a directory sub holding data;
\* sub may hold an index.html, data may be unreadable, sub may be unlistable.
MkDisk(subIndex, dataReadable, subListable) ==
    LET base ==
          (<<>> :> Dir(TRUE)) @@
          (<<"home">> :> Dir(TRUE)) @@
          (<<"home", "data">> :> File("home data bytes", TRUE)) @@
          (<<"srv">> :> Dir(TRUE)) @@
          (<<"srv", "web">> :> Dir(TRUE)) @@
          (<<"srv", "web", "serve.py">> :> File("serve.py bytes", TRUE)) @@
          (<<"srv", "web", "sub">> :> Dir(subListable)) @@
          (<<"srv", "web", "sub", "data">> :> File("data bytes", dataReadable))
    IN  IF subIndex
        THEN base @@ (<<"srv", "web", "sub", "index.html">>
                        :> File("index bytes", TRUE))
        ELSE base

Disks == {MkDisk(i, r, l) : i \in BOOLEAN, r \in BOOLEAN, l \in BOOLEAN}

exists(d, p) == p \in DOMAIN d
isdir(d, p) == exists(d, p) /\ d[p].kind = "dir"
isfile(d, p) == exists(d, p) /\ d[p].kind = "file"
\* open(path, 'rb') succeeds
canopen(d, p) == isfile(d, p) /\ d[p].perm
\* os.listdir(path)
listdir(d, p) == {q[Len(q)] : q \in {r \in DOMAIN d : Len(r) = Len(p) + 1
                                        /\ SubSeq(r, 1, Len(p)) = p}}

----------------------------------------------------------------------------
(* Requests and the static file handler (http.server.SimpleHTTPRequestHandler) *)

\* The components a request path is written with.
ReqNames == {"serve.py", "sub", "data", "index.html", ".."}

ReqPaths == UNION {[1..k -> ReqNames] : k \in 0..MaxPathLen}

\* A GET request: its path, whether the path is written with a trailing "/",
\* and whether it carries an If-Modified-Since date (and no If-None-Match)
\* that is not older than the target's modification time.  "/" ends in "/".
Requests ==
    {r \in [path : ReqPaths, slash : BOOLEAN, ims : BOOLEAN] :
        r.path = <<>> => r.slash}

\* The index files send_head looks for, in order.
IndexNames == <<"index.html", "index.htm">>

NoBody == [kind |-> "empty", data |-> "", links |-> {}]
ErrorPage == [kind |-> "error", data |-> "", links |-> {}]
FileBody(bytes) == [kind |-> "bytes", data |-> bytes, links |-> {}]
HtmlBody(links) == [kind |-> "html", data |-> "", links |-> links]

Response(status, body) == [status |-> status, body |-> body]

\* translate_path: the query is dropped, the path normalised, "." and ".."
\* components ignored, the rest joined to the handler's directory; a trailing
\* slash is kept.
translate_path(directory, req) ==
    LET words == SelectSeq(normpath(req.path),
                           LAMBDA w : w \notin {".", ".."})
    IN  [path |-> directory \o words, slash |-> req.slash]

\* A listing that leaves the subdirectories out.
list_directory_FilesOnly(d, p) ==
    IF ~d[p].perm
    THEN Response(404, ErrorPage)
    ELSE Response(200,
           HtmlBody({[name |-> n, dir |-> FALSE] :
                        n \in {m \in listdir(d, p) : ~isdir(d, Append(p, m))}}))

\* list_directory: one link per entry of the directory, a directory's link
\* and name ending in "/".
list_directory(d, p) ==
    IF ~d[p].perm
    THEN Response(404, ErrorPage)
    ELSE Response(200,
           HtmlBody({[name |-> n, dir |-> isdir(d, Append(p, n))] :
                        n \in listdir(d, p)}))

\* The headers are sent and the file is never copied to the client.
send_file_NoBody(d, p, slash, ims) ==
    IF slash THEN Response(404, ErrorPage)
    ELSE IF ~canopen(d, p) THEN Response(404, ErrorPage)
    ELSE IF ims THEN Response(304, NoBody)
    ELSE Response(200, FileBody(""))

\* A path that cannot be opened is answered with an empty page, not an error.
send_file_Fallback(d, p, slash, ims) ==
    IF slash \/ ~canopen(d, p) THEN Response(200, FileBody(""))
    ELSE IF ims THEN Response(304, NoBody)
    ELSE Response(200, FileBody(d[p].data))

\* The rest of send_head and do_GET's copyfile, for a path that is not a
\* directory to list.
send_file(d, p, slash, ims) ==
    IF slash THEN Response(404, ErrorPage)
    ELSE IF ~canopen(d, p) THEN Response(404, ErrorPage)
    ELSE IF ims THEN Response(304, NoBody)
    ELSE Response(200, FileBody(d[p].data))

\* send_head followed by do_GET's copy of the file to the client.
do_GET(d, directory, req) ==
    LET t == translate_path(directory, req)
        found == {i \in 1..Len(IndexNames) : isfile(d, Append(t.path, IndexNames[i]))}
    IN  IF isdir(d, t.path)
        THEN IF ~req.slash
             THEN Response(301, NoBody)
             ELSE IF found # {}
                  THEN send_file(d, Append(t.path,
                                   IndexNames[CHOOSE i \in found :
                                                \A j \in found : i <= j]),
                                 FALSE, req.ims)
                  ELSE list_directory(d, t.path)
        ELSE send_file(d, t.path, t.slash, req.ims)

----------------------------------------------------------------------------
(* The script: web/serve.py *)

\* PORT = 8000
PORT == 8000

\* Exit statuses: sys.exit(0); an unhandled exception; an unhandled
\* KeyboardInterrupt (the interpreter dies of SIGINT, 128 + 2 to the shell).
ExitOk == 0
ExitException == 1
ExitSigint == 130

Line(text, dir, num) == [text |-> text, dir |-> dir, num |-> num]
RootLine(dir) == Line("Serving MADOLA web app from: ", dir, <<>>)
UrlLine(n) == Line("Open your browser to: http://localhost:", <<>>, <<n>>)
HintLine == Line("Press Ctrl+C to stop the server", <<>>, <<>>)
BlankLine == Line("", <<>>, <<>>)
StopLine == Line("Server stopped.", <<>>, <<>>)

\* The statements before the try block, in program order, and each one's
\* successor.
StartupOrder == <<"resolve", "chdir", "config", "print_root", "print_url",
                  "print_hint", "bind">>
StartupPcs == {"resolve", "chdir", "config", "print_root", "print_url",
               "print_hint"}
\* The working directory is never changed.
NextPc_NoChdir(s) ==
    IF s = "resolve" THEN "config"
    ELSE StartupOrder[(CHOOSE i \in 1..Len(StartupOrder) :
                          StartupOrder[i] = s) + 1]

NextPc(s) == StartupOrder[(CHOOSE i \in 1..Len(StartupOrder) :
                              StartupOrder[i] = s) + 1]

\* The statements inside `with socketserver.TCPServer(...) as httpd:`.
WithPcs == {"serve_forever", "serving", "handling", "responded"}
\* The statements of the except clause.
ExceptPcs == {"notice", "exit"}

Init ==
    /\ pc = [p \in Procs |-> "resolve"]
    /\ cwd \in [Procs -> LaunchDirs]
    /\ web_dir = [p \in Procs |-> <<>>]
    /\ port = [p \in Procs |-> <<>>]
    /\ handler = [p \in Procs |-> "unset"]
    /\ stdout = [p \in Procs |-> <<>>]
    /\ exitStatus = [p \in Procs |-> <<>>]
    /\ sigAt = [p \in Procs |-> <<>>]
    /\ steps = [p \in Procs |-> <<>>]
    /\ listener = {}
    /\ conn = <<>>
    /\ disk \in Disks

\* The sockets the operating system closes when p's process ends, or
\* server_close() closes.
Release(p) == {l \in listener : l.by # p}

\* web_dir = os.path.dirname(os.path.abspath(__file__))
Resolve(p) ==
    /\ pc[p] = "resolve"
    /\ \E ref \in ScriptRefs(cwd[p]) :
          web_dir' = [web_dir EXCEPT ![p] = <<dirname(abspath(cwd[p], ref))>>]
    /\ steps' = [steps EXCEPT ![p] = Append(@, "resolve")]
    /\ pc' = [pc EXCEPT ![p] = NextPc("resolve")]
    /\ UNCHANGED <<cwd, port, handler, stdout, exitStatus, sigAt, listener,
                   conn, disk>>

\* os.chdir(web_dir)
Chdir(p) ==
    /\ pc[p] = "chdir"
    /\ cwd' = [cwd EXCEPT ![p] = web_dir[p][1]]
    /\ steps' = [steps EXCEPT ![p] = Append(@, "chdir")]
    /\ pc' = [pc EXCEPT ![p] = NextPc("chdir")]
    /\ UNCHANGED <<web_dir, port, handler, stdout, exitStatus, sigAt,
                   listener, conn, disk>>

\* PORT = 8000; Handler = http.server.SimpleHTTPRequestHandler
Config(p) ==
    /\ pc[p] = "config"
    /\ port' = [port EXCEPT ![p] = <<PORT>>]
    /\ handler' = [handler EXCEPT ![p] = "SimpleHTTPRequestHandler"]
    /\ pc' = [pc EXCEPT ![p] = NextPc("config")]
    /\ UNCHANGED <<cwd, web_dir, stdout, exitStatus, sigAt, steps, listener,
                   conn, disk>>

\* The banner names the parent of the serving root.
BannerLine_ParentRoot(p, s) ==
    CASE s = "print_root" -> RootLine(dirname(web_dir[p][1]))
      [] s = "print_url"  -> UrlLine(port[p][1])
      [] s = "print_hint" -> HintLine

\* The three print statements of the banner.
BannerLine(p, s) ==
    CASE s = "print_root" -> RootLine(web_dir[p][1])
      [] s = "print_url"  -> UrlLine(port[p][1])
      [] s = "print_hint" -> HintLine

PrintBanner(p) ==
    /\ pc[p] \in {"print_root", "print_url", "print_hint"}
    /\ stdout' = [stdout EXCEPT ![p] = Append(@, BannerLine(p, pc[p]))]
    /\ pc' = [pc EXCEPT ![p] = NextPc(pc[p])]
    /\ UNCHANGED <<cwd, web_dir, port, handler, exitStatus, sigAt, steps,
                   listener, conn, disk>>

\* The socket is bound with SO_REUSEPORT.
CanBind_Reuse(p) == TRUE

\* socket.bind(("", PORT)) succeeds: no socket is bound to the port
\* (allow_reuse_address and allow_reuse_port are False).
CanBind(p) == \A l \in listener : l.port # port[p][1]

\* socketserver.TCPServer(("", PORT), Handler): bind and listen.
Bind(p) ==
    /\ pc[p] = "bind"
    /\ CanBind(p)
    /\ listener' = listener \cup {[by |-> p, port |-> port[p][1]]}
    /\ steps' = [steps EXCEPT ![p] = Append(@, "bind")]
    /\ pc' = [pc EXCEPT ![p] = "serve_forever"]
    /\ UNCHANGED <<cwd, web_dir, port, handler, stdout, exitStatus, sigAt,
                   conn, disk>>

\* A failed bind falls back to the next port.
BindFail_Fallback(p) ==
    /\ pc[p] = "bind"
    /\ \E fault \in BOOLEAN : fault \/ ~CanBind(p)
    /\ listener' = listener \cup {[by |-> p, port |-> port[p][1] + 1]}
    /\ pc' = [pc EXCEPT ![p] = "serve_forever"]
    /\ UNCHANGED <<cwd, web_dir, port, handler, stdout, exitStatus, sigAt,
                   steps, conn, disk>>

\* The bind raises OSError (the port is taken by an instance, or by
\* something else on the host; permission denied): the constructor closes
\* its socket and the exception leaves the try block, which catches only
\* KeyboardInterrupt.
BindFail(p) ==
    /\ pc[p] = "bind"
    /\ \E fault \in BOOLEAN : fault \/ ~CanBind(p)
    /\ pc' = [pc EXCEPT ![p] = "done"]
    /\ exitStatus' = [exitStatus EXCEPT ![p] = <<ExitException>>]
    /\ UNCHANGED <<cwd, web_dir, port, handler, stdout, sigAt, steps,
                   listener, conn, disk>>

\* httpd.serve_forever() is entered.
ServeForever(p) ==
    /\ pc[p] = "serve_forever"
    /\ steps' = [steps EXCEPT ![p] = Append(@, "serve")]
    /\ pc' = [pc EXCEPT ![p] = "serving"]
    /\ UNCHANGED <<cwd, web_dir, port, handler, stdout, exitStatus, sigAt,
                   listener, conn, disk>>

\* The serve loop accepts a connection carrying request r.
Accept(p, r) ==
    /\ pc[p] = "serving"
    /\ conn = <<>>
    /\ conn' = <<[by |-> p, req |-> r, resp |-> <<>>]>>
    /\ pc' = [pc EXCEPT ![p] = "handling"]
    /\ UNCHANGED <<cwd, web_dir, port, handler, stdout, exitStatus, sigAt,
                   steps, listener, disk>>

\* The handler answers; it serves from the working directory of the process.
Respond(p) ==
    /\ pc[p] = "handling"
    /\ conn' = <<[conn[1] EXCEPT !.resp = <<do_GET(disk, cwd[p], conn[1].req)>>]>>
    /\ pc' = [pc EXCEPT ![p] = "responded"]
    /\ UNCHANGED <<cwd, web_dir, port, handler, stdout, exitStatus, sigAt,
                   steps, listener, disk>>

\* shutdown_request: the connection is closed and the loop goes on.
Finish(p) ==
    /\ pc[p] = "responded"
    /\ conn' = <<>>
    /\ pc' = [pc EXCEPT ![p] = "serving"]
    /\ UNCHANGED <<cwd, web_dir, port, handler, stdout, exitStatus, sigAt,
                   steps, listener, disk>>

\* The with block's __exit__: server_close().
Close(p) ==
    /\ pc[p] = "closing"
    /\ listener' = Release(p)
    /\ pc' = [pc EXCEPT ![p] = "notice"]
    /\ UNCHANGED <<cwd, web_dir, port, handler, stdout, exitStatus, sigAt,
                   steps, conn, disk>>

\* print("\nServer stopped.")
Notice(p) ==
    /\ pc[p] = "notice"
    /\ stdout' = [stdout EXCEPT ![p] = @ \o <<BlankLine, StopLine>>]
    /\ pc' = [pc EXCEPT ![p] = "exit"]
    /\ UNCHANGED <<cwd, web_dir, port, handler, exitStatus, sigAt, steps,
                   listener, conn, disk>>

\* sys.exit(0)
Exit(p) ==
    /\ pc[p] = "exit"
    /\ exitStatus' = [exitStatus EXCEPT ![p] = <<ExitOk>>]
    /\ listener' = Release(p)
    /\ pc' = [pc EXCEPT ![p] = "done"]
    /\ UNCHANGED <<cwd, web_dir, port, handler, stdout, sigAt, steps, conn,
                   disk>>

\* No except clause: every KeyboardInterrupt leaves the program.
InterruptTarget_Uncaught(s) == "done"

\* The serve loop swallows an interrupt that arrives while it waits.
InterruptTarget_Swallowed(s) ==
    IF s = "serving" THEN "serving"
    ELSE IF s \in WithPcs THEN "closing"
    ELSE IF s \in {"bind", "closing"} THEN "notice"
    ELSE "done"

\* The try block wraps the startup statements too.
InterruptTarget_TryAll(s) ==
    IF s \in WithPcs THEN "closing"
    ELSE IF s \in {"bind", "closing"} \cup StartupPcs THEN "notice"
    ELSE "done"

\* Where a KeyboardInterrupt raised at statement s takes control: out of the
\* with block through __exit__ and into the except clause when s is inside
\* the try block, out of the program otherwise.
InterruptTarget(s) ==
    IF s \in WithPcs THEN "closing"
    ELSE IF s \in {"bind", "closing"} THEN "notice"
    ELSE "done"

\* The user delivers SIGINT to instance p.
Interrupt(p) ==
    /\ pc[p] # "done"
    /\ Len(sigAt[p]) < MaxInterrupts
    /\ sigAt' = [sigAt EXCEPT ![p] = Append(@, pc[p])]
    /\ pc' = [pc EXCEPT ![p] = InterruptTarget(pc[p])]
    /\ IF InterruptTarget(pc[p]) = "done"
       THEN /\ exitStatus' = [exitStatus EXCEPT ![p] = <<ExitSigint>>]
            /\ listener' = Release(p)
       ELSE UNCHANGED <<exitStatus, listener>>
    /\ conn' = IF conn # <<>> /\ conn[1].by = p THEN <<>> ELSE conn
    /\ UNCHANGED <<cwd, web_dir, port, handler, stdout, steps, disk>>

\* The statements of the program itself.
Step(p) ==
    \/ Resolve(p)
    \/ Chdir(p)
    \/ Config(p)
    \/ PrintBanner(p)
    \/ Bind(p)
    \/ BindFail(p)
    \/ ServeForever(p)
    \/ Respond(p)
    \/ Finish(p)
    \/ Close(p)
    \/ Notice(p)
    \/ Exit(p)

\* The requests the clients of the two-instance system send: a file, a
\* missing path, a directory with and without its trailing slash, a
\* conditional GET.
ProbeRequests ==
    {[path |-> <<"serve.py">>, slash |-> FALSE, ims |-> FALSE],
     [path |-> <<"serve.py">>, slash |-> FALSE, ims |-> TRUE],
     [path |-> <<"data">>, slash |-> FALSE, ims |-> FALSE],
     [path |-> <<"sub">>, slash |-> TRUE, ims |-> FALSE],
     [path |-> <<"sub">>, slash |-> FALSE, ims |-> FALSE]}

\* Two instances on one host.
Next ==
    \/ \E p \in Procs : Step(p)
    \/ \E p \in Procs : \E r \in ProbeRequests : Accept(p, r)
    \/ \E p \in Procs : Interrupt(p)

Spec == Init /\ [][Next]_vars

\* The interpreter runs the next statement of a live process; clients and
\* the user are under no obligation.
FairSpec == Spec /\ \A p \in Procs : WF_vars(Step(p))

\* One instance alone on the host (the other is never launched), its
\* clients sending every request of Requests.
Solo == "i1"

SoloNext ==
    \/ Step(Solo)
    \/ \E r \in Requests : Accept(Solo, r)
    \/ Interrupt(Solo)

SoloSpec == Init /\ [][SoloNext]_vars

----------------------------------------------------------------------------
(* Vocabulary of the properties *)

\* How often the stop notice stands in p's output.
Notices(p) == Cardinality({i \in 1..Len(stdout[p]) : stdout[p][i] = StopLine})

\* p has terminated with status n.
Exited(p, n) == pc[p] = "done" /\ exitStatus[p] = <<n>>

\* p has terminated with a status other than 0.
ExitedNonZero(p) ==
    pc[p] = "done" /\ exitStatus[p] # <<>> /\ exitStatus[p][1] # 0

\* p's socket is bound to the port.
Bound(p) == \E l \in listener : l.by = p

\* Exactly one SIGINT has reached p, and it came in the serve loop.
OneInterruptInLoop(p) == Len(sigAt[p]) = 1 /\ sigAt[p][1] \in WithPcs

\* The first SIGINT reached p before the try block.
InterruptedInStartup(p) == sigAt[p] # <<>> /\ sigAt[p][1] \in StartupPcs

\* The connection has been answered.
Answered == conn # <<>> /\ conn[1].resp # <<>>
TheReq == conn[1].req
TheResp == conn[1].resp[1]
\* The path under the serving root that the answered request names.
Target == ScriptDir \o normpath(TheReq.path)

----------------------------------------------------------------------------
(* C1: when a KeyboardInterrupt is delivered in the serve loop (and it is   *)
(* the only one), the process prints the stop notice exactly once and ends  *)
(* with exit status 0; the notice never appears twice.                      *)
C1_InterruptInLoopExitsZero ==
    \A p \in Procs :
        /\ Notices(p) <= 1
        /\ (pc[p] = "done" /\ OneInterruptInLoop(p))
              => (exitStatus[p] = <<ExitOk>> /\ Notices(p) = 1)

C1_Witness ==
    \E p \in Procs : Exited(p, 0) /\ sigAt[p] = <<"serving">> /\ Notices(p) = 1

(* C2: when the bind fails, the process ends with a non-zero status at     *)
(* once: it never binds another port, never serves, never prints the stop  *)
(* notice, and a terminated process does nothing more (no retry).          *)
BindFailsAt(p) ==
    /\ pc[p] = "bind"
    /\ pc'[p] # "bind"
    /\ sigAt'[p] = sigAt[p]
    /\ (~CanBind(p) \/ ~Bound(p)')

C2_BindFailureIsFatal ==
    [][\A p \in Procs :
          /\ BindFailsAt(p) =>
                /\ ExitedNonZero(p)'
                /\ ~Bound(p)'
                /\ Notices(p)' = 0
                /\ steps'[p] = <<"resolve", "chdir">>
          /\ pc[p] = "done" =>
                /\ pc'[p] = "done"
                /\ exitStatus'[p] = exitStatus[p]
                /\ ~Bound(p)']_vars

C2_Witness ==
    \E p \in Procs :
        /\ ExitedNonZero(p) /\ sigAt[p] = <<>> /\ ~Bound(p)
        /\ steps[p] = <<"resolve", "chdir">>

(* C3: of two instances at most one ever holds the listening port; an      *)
(* instance that tries to bind while the other is bound and serving fails   *)
(* and exits non-zero, and the serving instance stays as it was.            *)
Serving(q) == Bound(q) /\ pc[q] \in {"serving", "handling", "responded"}

C3_OneListener ==
    /\ [](Cardinality(listener) <= 1)
    /\ [][\A p, q \in Procs :
            (/\ p # q
             /\ Serving(q)
             /\ pc[p] = "bind"
             /\ pc'[p] # "bind"
             /\ sigAt'[p] = sigAt[p])
            => (/\ ExitedNonZero(p)'
                /\ ~Bound(p)'
                /\ Serving(q)'
                /\ pc'[q] = pc[q])]_vars

C3_Witness ==
    \E p, q \in Procs :
        /\ p # q
        /\ Serving(q)
        /\ Exited(p, ExitException) /\ sigAt[p] = <<>>

(* C4: once an interrupt has reached a serving process it accepts no       *)
(* further connection; the with block releases the listening socket before *)
(* the except clause runs; and the process does terminate, with status 0   *)
(* when that interrupt is the only one.                                    *)
C4_InterruptStopsServing ==
    /\ [][\A p \in Procs :
            sigAt[p] # <<>> => ~(pc[p] # "handling" /\ pc'[p] = "handling")]_vars
    /\ [](\A p \in Procs :
            (OneInterruptInLoop(p) /\ pc[p] \in ExceptPcs \cup {"done"})
               => ~Bound(p))
    /\ \A p \in Procs :
          OneInterruptInLoop(p)
             ~> (pc[p] = "done"
                   /\ (Len(sigAt[p]) = 1 => exitStatus[p] = <<ExitOk>>))

C4_Witness ==
    \E p \in Procs :
        /\ pc[p] = "notice" /\ sigAt[p] = <<"handling">> /\ ~Bound(p)
        /\ exitStatus[p] = <<>>

(* C5: the startup steps run in one order: resolve the root, change to it, *)
(* bind (all interfaces, 8000), serve; whenever the process serves, its    *)
(* working directory is the resolved root, which is the script's          *)
(* directory; root and port never change once set.                         *)
IsPrefix(a, b) == Len(a) <= Len(b) /\ a = SubSeq(b, 1, Len(a))

C5_StartupOrder ==
    /\ [](\A p \in Procs :
            /\ IsPrefix(steps[p], <<"resolve", "chdir", "bind", "serve">>)
            /\ pc[p] \in WithPcs =>
                  /\ web_dir[p] = <<ScriptDir>>
                  /\ cwd[p] = web_dir[p][1]
                  /\ port[p] = <<PORT>>
                  /\ [by |-> p, port |-> PORT] \in listener
            /\ (conn # <<>> /\ conn[1].by = p) => cwd[p] = web_dir[p][1])
    /\ [][\A p \in Procs :
            /\ web_dir[p] # <<>> => web_dir'[p] = web_dir[p]
            /\ port[p] # <<>> => port'[p] = port[p]]_vars

C5_Witness ==
    \E p \in Procs :
        /\ Answered /\ conn[1].by = p
        /\ steps[p] = <<"resolve", "chdir", "bind", "serve">>

(* C6 as claimed: every file that exists under the serving root is        *)
(* answered 200 with its bytes when a plain GET names it.                  *)
C6_EveryFileServed ==
    (Answered /\ ~TheReq.slash /\ ~TheReq.ims
        /\ isfile(disk, ScriptDir \o TheReq.path))
       => TheResp = Response(200, FileBody(disk[ScriptDir \o TheReq.path].data))

(* C6, amended: every file under the serving root that the server can     *)
(* open for reading is answered 200 with a body equal to its bytes, when   *)
(* the GET names it without a trailing slash and carries no               *)
(* If-Modified-Since date the file is not newer than.                      *)
C6_ReadableFileServed ==
    (Answered /\ ~TheReq.slash /\ ~TheReq.ims /\ canopen(disk, Target))
       => TheResp = Response(200, FileBody(disk[Target].data))

C6_Witness ==
    /\ Answered
    /\ TheReq = [path |-> <<"sub", "data">>, slash |-> FALSE, ims |-> FALSE]
    /\ TheResp = Response(200, FileBody("data bytes"))

(* C7: a GET for a path that is neither a file nor a directory under the   *)
(* serving root is answered 404, and the process is unaffected: it has not *)
(* exited, it still holds the port, and its next step takes it back to the *)
(* serve loop.                                                             *)
Missing == Answered /\ ~exists(disk, Target)

C7_MissingPathIs404 ==
    /\ [](Missing =>
            /\ TheResp = Response(404, ErrorPage)
            /\ pc[conn[1].by] = "responded"
            /\ exitStatus[conn[1].by] = <<>>
            /\ Bound(conn[1].by))
    /\ [][\A p \in Procs :
            (/\ Missing
             /\ conn[1].by = p
             /\ pc'[p] # pc[p]
             /\ sigAt'[p] = sigAt[p])
            => (/\ pc'[p] = "serving"
                /\ exitStatus'[p] = <<>>
                /\ Bound(p)'
                /\ conn' = <<>>)]_vars

C7_Witness ==
    /\ Missing
    /\ TheReq.path = <<"..", "data">>
    /\ TheResp.status = 404

(* C8 as claimed: every GET that resolves to an existing directory is      *)
(* answered 200 with a page linking each immediate child, whatever the     *)
(* directory holds and however the path is written.                        *)
Children(p) == {q \in DOMAIN disk : q # <<>> /\ dirname(q) = p}
LinksOf(p) == {[name |-> q[Len(q)], dir |-> disk[q].kind = "dir"] : q \in Children(p)}

C8_EveryDirectoryListed ==
    (Answered /\ isdir(disk, Target))
       => TheResp = Response(200, HtmlBody(LinksOf(Target)))

(* C8, amended: a GET whose path is written with a trailing slash and      *)
(* resolves to an existing, listable directory that holds neither          *)
(* index.html nor index.htm is answered 200 with a page linking each       *)
(* immediate child.                                                        *)
HasIndex(p) == \E i \in 1..Len(IndexNames) : isfile(disk, Append(p, IndexNames[i]))

C8_PlainDirectoryListed ==
    (Answered /\ isdir(disk, Target) /\ TheReq.slash
        /\ ~HasIndex(Target) /\ disk[Target].perm)
       => TheResp = Response(200, HtmlBody(LinksOf(Target)))

C8_Witness ==
    /\ Answered
    /\ TheReq.path = <<"sub">> /\ TheReq.slash
    /\ TheResp = Response(200, HtmlBody({[name |-> "data", dir |-> FALSE]}))

(* C9 as claimed: when the serve loop is reached, standard output holds    *)
(* exactly two lines, the serving root and the URL.                        *)
C9_TwoLineBanner ==
    \A p \in Procs :
        pc[p] \in WithPcs => stdout[p] = <<RootLine(ScriptDir), UrlLine(PORT)>>

(* C9, amended: when the serve loop is reached, standard output holds      *)
(* exactly three lines: the serving root, the URL http://localhost:8000,   *)
(* and "Press Ctrl+C to stop the server".                                  *)
C9_ThreeLineBanner ==
    \A p \in Procs :
        pc[p] \in WithPcs
           => stdout[p] = <<RootLine(ScriptDir), UrlLine(PORT), HintLine>>

C9_Witness ==
    \E p \in Procs : pc[p] = "serving" /\ Len(stdout[p]) = 3 /\ sigAt[p] = <<>>

(* C10: an interrupt that arrives before the try block is not caught: the  *)
(* process ends at once, without the stop notice and with a non-zero       *)
(* status; the stop notice stands in the output only when the first        *)
(* interrupt arrived inside the try block.                                 *)
C10_StartupInterruptUncaught ==
    \A p \in Procs :
        /\ InterruptedInStartup(p)
              => (ExitedNonZero(p) /\ Notices(p) = 0 /\ ~Bound(p))
        /\ Notices(p) > 0
              => (sigAt[p] # <<>> /\ sigAt[p][1] \in WithPcs \cup {"bind"})

C10_Witness ==
    \E p \in Procs :
        /\ sigAt[p] = <<"print_url">>
        /\ Exited(p, ExitSigint)
        /\ Len(stdout[p]) = 1

====
